---- MODULE Spec2Model ----
(***************************************************************************)
(* Model of homeassistant/components/whois/helper.py: the query wrapper    *)
(* around the external whois lookup and its field-extraction helpers.      *)
(*                                                                         *)
(* Python values are tagged records: the tag t is the Python type name.    *)
(* Strings are TLA+ strings, handled character by character (Len, SubSeq,  *)
(* \o), so that str(), str.lower() and the `in` substring test are         *)
(* computed rather than assumed.                                           *)
(***************************************************************************)
EXTENDS Integers, Sequences, FiniteSets, TLC

VARIABLES
    domain,     \* argument of the last call of query
    ext,        \* outcome of ext_whois.whois(domain) in that call
    ret,        \* outcome of that call of query
    sx,         \* get_attr_generic_single harness: the value x
    sattr,      \* ... the field name
    slist,      \* ... the result on a raw result whose field is [x]
    sscalar     \* ... the result on a raw result whose field is x

vars == <<domain, ext, ret, sx, sattr, slist, sscalar>>

(***************************************************************************)
(* Bounds of the model.                                                    *)
(***************************************************************************)
MaxLen == 2         \* longest list drawn for a field of the raw result
MaxFields == 2      \* most fields set at once in a freely drawn raw result

(***************************************************************************)
(* Python values.                                                          *)
(***************************************************************************)
None == [t |-> "NoneType"]
StrV(s) == [t |-> "str", s |-> s]
IntV(n) == [t |-> "int", n |-> n]
BoolV(b) == [t |-> "bool", b |-> b]
ListV(e) == [t |-> "list", e |-> e]
\* datetime(year, ..., microsecond, tzinfo); tzkey = "" for a naive datetime,
\* otherwise the zone name, with utcoff the zone's offset at that instant.
DatetimeV(year, month, day, hour, minute, second, microsecond, tzkey, utcoff) ==
    [t |-> "datetime", year |-> year, month |-> month, day |-> day,
     hour |-> hour, minute |-> minute, second |-> second,
     microsecond |-> microsecond, tzkey |-> tzkey, utcoff |-> utcoff]

IsNone(v) == v.t = "NoneType"
IsList(v) == v.t = "list"              \* isinstance(v, list)
IsDatetime(v) == v.t = "datetime"      \* isinstance(v, datetime)
IsStr(v) == v.t = "str"

\* Python truth value: bool(v)
Truthy(v) ==
    CASE v.t = "NoneType" -> FALSE
      [] v.t = "str"      -> Len(v.s) > 0
      [] v.t = "int"      -> v.n # 0
      [] v.t = "bool"     -> v.b
      [] v.t = "list"     -> Len(v.e) > 0
      [] OTHER            -> TRUE

(***************************************************************************)
(* Strings: str.lower(), the `in` substring test, str() and repr().        *)
(***************************************************************************)
UpperChars == "ABCDEFGHIJKLMNOPQRSTUVWXYZ"
LowerChars == "abcdefghijklmnopqrstuvwxyz"
CharAt(s, i) == SubSeq(s, i, i)

LowerMap ==
    [c \in {CharAt(UpperChars, i) : i \in 1..Len(UpperChars)} |->
        CharAt(LowerChars, CHOOSE i \in 1..Len(UpperChars) : CharAt(UpperChars, i) = c)]

LowerChar(c) == IF c \in DOMAIN LowerMap THEN LowerMap[c] ELSE c

RECURSIVE Lower(_)
Lower(s) ==
    IF Len(s) = 0 THEN ""
    ELSE LowerChar(CharAt(s, 1)) \o Lower(SubSeq(s, 2, Len(s)))

\* sub in s
Contains(s, sub) ==
    \E i \in 0..(Len(s) - Len(sub)) : SubSeq(s, i + 1, i + Len(sub)) = sub

Digit(n) == CharAt("0123456789", n + 1)

RECURSIVE IntStr(_)
IntStr(n) == IF n < 10 THEN Digit(n) ELSE IntStr(n \div 10) \o Digit(n % 10)

RECURSIVE Pad(_, _)
Pad(n, w) == IF w <= 1 THEN IntStr(n) ELSE
             IF Len(IntStr(n)) >= w THEN IntStr(n) ELSE "0" \o Pad(n, w - 1)

\* datetime.__str__: isoformat(sep=" ")
DatetimeStr(v) ==
    Pad(v.year, 4) \o "-" \o Pad(v.month, 2) \o "-" \o Pad(v.day, 2) \o " " \o
    Pad(v.hour, 2) \o ":" \o Pad(v.minute, 2) \o ":" \o Pad(v.second, 2) \o
    (IF v.microsecond # 0 THEN "." \o Pad(v.microsecond, 6) ELSE "") \o v.utcoff

\* datetime.__repr__
DatetimeRepr(v) ==
    "datetime.datetime(" \o IntStr(v.year) \o ", " \o IntStr(v.month) \o ", " \o
    IntStr(v.day) \o ", " \o IntStr(v.hour) \o ", " \o IntStr(v.minute) \o
    (IF v.microsecond # 0
     THEN ", " \o IntStr(v.second) \o ", " \o IntStr(v.microsecond)
     ELSE IF v.second # 0 THEN ", " \o IntStr(v.second) ELSE "") \o
    (IF v.tzkey # "" THEN ", tzinfo=zoneinfo.ZoneInfo(key='" \o v.tzkey \o "')"
     ELSE "") \o ")"

RECURSIVE PyStr(_), PyRepr(_), JoinRepr(_)
\* str(v)
PyStr(v) ==
    CASE v.t = "NoneType" -> "None"
      [] v.t = "str"      -> v.s
      [] v.t = "int"      -> IntStr(v.n)
      [] v.t = "bool"     -> IF v.b THEN "True" ELSE "False"
      [] v.t = "datetime" -> DatetimeStr(v)
      [] v.t = "list"     -> "[" \o JoinRepr(v.e) \o "]"

\* repr(v); the strings of the model hold no quote or backslash
PyRepr(v) ==
    CASE v.t = "str"      -> "'" \o v.s \o "'"
      [] v.t = "datetime" -> DatetimeRepr(v)
      [] OTHER            -> PyStr(v)

JoinRepr(e) ==
    IF Len(e) = 0 THEN ""
    ELSE IF Len(e) = 1 THEN PyRepr(e[1])
    ELSE PyRepr(e[1]) \o ", " \o JoinRepr(Tail(e))

(***************************************************************************)
(* Raw results of the external library: a dict from field names to values. *)
(***************************************************************************)
Dict(m) == [t |-> "dict", m |-> m]
Has(whois, attr_name) == attr_name \in DOMAIN whois.m      \* attr_name in whois
Get(whois, attr_name) == whois.m[attr_name]                \* whois[attr_name]

\* "attr_name not in whois or not whois[attr_name]"
Missing(whois, attr_name) ==
    ~Has(whois, attr_name) \/ ~Truthy(Get(whois, attr_name))

(***************************************************************************)
(* Outcomes of a call: a returned value or a raised exception.             *)
(***************************************************************************)
Return(v) == [kind |-> "return", value |-> v]
Raise(cls) == [kind |-> "raise", cls |-> cls]
NotCalled == [kind |-> "none"]

\* An exception raised by the external lookup: its class, its message, and
\* str_error, the class of the error that str(ex) raises ("" when str(ex)
\* returns the message).
Exc(cls, msg, str_error) == [cls |-> cls, msg |-> msg, str_error |-> str_error]

\* The classes an exception class derives from (itself included).
Mro(cls) ==
    CASE cls = "PywhoisError"      -> {"PywhoisError", "Exception", "BaseException"}
      [] cls = "ConnectionError"   -> {"ConnectionError", "Exception", "BaseException"}
      [] cls = "TimeoutError"      -> {"TimeoutError", "Exception", "BaseException"}
      [] OTHER                     -> {cls, "Exception", "BaseException"}

IsInstance(ex, cls) == cls \in Mro(ex.cls)

(***************************************************************************)
(* The field-extraction helpers.                                           *)
(***************************************************************************)
\* mutant: a list is returned whole
get_attr_generic_single_whole(whois, attr_name) ==
    IF Missing(whois, attr_name) THEN None ELSE Get(whois, attr_name)

get_attr_generic_single(whois, attr_name) ==
    IF Missing(whois, attr_name) THEN None
    ELSE LET attr == Get(whois, attr_name)
         IN  IF IsList(attr) THEN attr.e[1] ELSE attr

\* mutant: the field is read directly, a list is not reduced to its first entry
get_attr_generic_date_direct(whois, attr_name) ==
    IF Missing(whois, attr_name) THEN None
    ELSE LET attr == Get(whois, attr_name)
         IN  IF IsDatetime(attr) THEN attr ELSE None

get_attr_generic_date(whois, attr_name) ==
    LET attr == get_attr_generic_single(whois, attr_name)
    IN  IF IsDatetime(attr) THEN attr ELSE None

\* mutant: the entries are not lower-cased
get_attr_name_servers_as_is(whois) ==
    IF Missing(whois, "name_servers") THEN None
    ELSE LET attr == Get(whois, "name_servers")
             ns == IF IsList(attr) THEN attr.e ELSE <<attr>>
         IN  ListV([i \in 1..Len(ns) |-> StrV(PyStr(ns[i]))])

get_attr_name_servers(whois) ==
    IF Missing(whois, "name_servers") THEN None
    ELSE LET attr == Get(whois, "name_servers")
             ns == IF IsList(attr) THEN attr.e ELSE <<attr>>
         IN  ListV([i \in 1..Len(ns) |-> StrV(Lower(PyStr(ns[i])))])

\* Python's "a or b": a when a is truthy, else b
Or(a, b) == IF Truthy(a) THEN a ELSE b

\* mutant: "org" is tried before "name"
get_attr_owner_org_first(whois) ==
    LET owner == Or(get_attr_generic_single(whois, "org"),
                    Or(get_attr_generic_single(whois, "name"),
                       get_attr_generic_single(whois, "registrant_name")))
    IN  IF Truthy(owner) THEN StrV(PyStr(owner)) ELSE None

get_attr_owner(whois) ==
    LET owner == Or(get_attr_generic_single(whois, "name"),
                    Or(get_attr_generic_single(whois, "org"),
                       get_attr_generic_single(whois, "registrant_name")))
    IN  IF Truthy(owner) THEN StrV(PyStr(owner)) ELSE None

\* any(v.lower() != "unsigned" for v in attr), evaluated left to right and
\* stopping at the first true entry; v.lower() raises AttributeError for a
\* value that is not a str.
RECURSIVE AnySigned(_)
AnySigned(attr) ==
    IF Len(attr) = 0 THEN Return(BoolV(FALSE))
    ELSE IF ~IsStr(attr[1]) THEN Raise("AttributeError")
    ELSE IF Lower(attr[1].s) # "unsigned" THEN Return(BoolV(TRUE))
    ELSE AnySigned(Tail(attr))

\* mutant: all(...) in place of any(...)
RECURSIVE AllSigned(_)
AllSigned(attr) ==
    IF Len(attr) = 0 THEN Return(BoolV(TRUE))
    ELSE IF ~IsStr(attr[1]) THEN Raise("AttributeError")
    ELSE IF Lower(attr[1].s) = "unsigned" THEN Return(BoolV(FALSE))
    ELSE AllSigned(Tail(attr))

get_attr_dnssec_all(whois) ==
    IF Missing(whois, "dnssec") THEN Return(BoolV(FALSE))
    ELSE LET attr0 == Get(whois, "dnssec")
             attr == IF IsList(attr0) THEN attr0.e ELSE <<attr0>>
         IN  AllSigned(attr)

\* The outcome of get_attr_dnssec: Return(bool) or Raise(class)
get_attr_dnssec(whois) ==
    IF Missing(whois, "dnssec") THEN Return(BoolV(FALSE))
    ELSE LET attr0 == Get(whois, "dnssec")
             attr == IF IsList(attr0) THEN attr0.e ELSE <<attr0>>
         IN  AnySigned(attr)

\* mutant: only an absent field gives None, an empty one gives a list
get_attr_statuses_absent_only(whois) ==
    IF ~Has(whois, "status") THEN None
    ELSE LET attr == Get(whois, "status")
         IN  IF IsList(attr) THEN attr ELSE ListV(<<attr>>)

get_attr_statuses(whois) ==
    IF Missing(whois, "status") THEN None
    ELSE LET attr == Get(whois, "status")
         IN  IF IsList(attr) THEN attr ELSE ListV(<<attr>>)

(***************************************************************************)
(* query.                                                                  *)
(***************************************************************************)
UnknownKindMsg == "No whois server is known for this kind of object"
NoServerMsg == "This TLD has no whois server"
NoMatchMsg == "No match for"

Domain(admin, creation_date, dnssec, expiration_date, last_updated, name_servers, owner, registrar, reseller, registrant, status, statuses) ==
    [t |-> "Domain", admin |-> admin, creation_date |-> creation_date,
     dnssec |-> dnssec, expiration_date |-> expiration_date,
     last_updated |-> last_updated, name_servers |-> name_servers,
     owner |-> owner, registrar |-> registrar, reseller |-> reseller,
     registrant |-> registrant, status |-> status, statuses |-> statuses]

\* The try statement: Return(wh) when control leaves it normally, with wh
\* the raw result (None when the failure was suppressed), else Raise(class).
\* An exception raised inside the "except PywhoisError" handler, by str(ex)
\* or by a raise statement, is not caught by the following except clause.
TryLookup(o) ==
    IF o.kind = "return" THEN Return(o.wh)
    ELSE LET ex == o.exc IN
         IF IsInstance(ex, "PywhoisError") THEN
             IF ex.str_error # "" THEN Raise(ex.str_error)
             ELSE IF Contains(ex.msg, UnknownKindMsg) \/ Contains(ex.msg, NoServerMsg)
                  THEN Raise("WhoisUnknownTLD")
             ELSE IF Contains(ex.msg, NoMatchMsg) THEN Return(None)
             ELSE Raise("GenericWhoisError")
         ELSE IF IsInstance(ex, "Exception") THEN Raise("GenericWhoisError")
         ELSE Raise(ex.cls)

\* mutant: status is read from a field "statuses"
MapFields_status_field(wh) ==
    LET dnssec == get_attr_dnssec(wh) IN
    IF dnssec.kind = "raise" THEN dnssec
    ELSE Return(Domain(get_attr_generic_single(wh, "admin"),
                       get_attr_generic_date(wh, "creation_date"),
                       dnssec.value,
                       get_attr_generic_date(wh, "expiration_date"),
                       get_attr_generic_date(wh, "updated_date"),
                       get_attr_name_servers(wh),
                       get_attr_owner(wh),
                       get_attr_generic_single(wh, "registrar"),
                       None,
                       get_attr_owner(wh),
                       get_attr_generic_single(wh, "statuses"),
                       get_attr_statuses(wh)))

\* The field mapping: the keyword arguments are evaluated in order; only
\* get_attr_dnssec can raise.
MapFields(wh) ==
    LET dnssec == get_attr_dnssec(wh) IN
    IF dnssec.kind = "raise" THEN dnssec
    ELSE Return(Domain(get_attr_generic_single(wh, "admin"),
                       get_attr_generic_date(wh, "creation_date"),
                       dnssec.value,
                       get_attr_generic_date(wh, "expiration_date"),
                       get_attr_generic_date(wh, "updated_date"),
                       get_attr_name_servers(wh),
                       get_attr_owner(wh),
                       get_attr_generic_single(wh, "registrar"),
                       None,
                       get_attr_owner(wh),
                       get_attr_generic_single(wh, "status"),
                       get_attr_statuses(wh)))

\* query(domain), given the outcome o of ext_whois.whois(domain)
query(o) ==
    LET try == TryLookup(o) IN
    IF try.kind = "raise" THEN try
    ELSE IF IsNone(try.value) THEN Return(None)
    ELSE MapFields(try.value)

(***************************************************************************)
(* The raw results of the test fixtures.                                   *)
(***************************************************************************)
\* mock_whois: mock_data
MockData ==
    [domain_name     |-> ListV(<<StrV("HOME-ASSISTANT.IO")>>),
     admin           |-> StrV("Admin"),
     creation_date   |-> DatetimeV(2019, 1, 1, 0, 0, 0, 0, "", ""),
     dnssec          |-> StrV("signedDelegation"),
     expiration_date |-> DatetimeV(2023, 1, 1, 0, 0, 0, 0, "", ""),
     updated_date    |-> ListV(<<DatetimeV(2022, 1, 1, 0, 0, 0, 0,
                                           "Europe/Amsterdam", "+01:00"),
                                 DatetimeV(2023, 11, 20, 6, 55, 46, 110000, "", "")>>),
     name_servers    |-> ListV(<<StrV("NS1.example.COM"), StrV("ns2.EXAMPLE.com")>>),
     registrant_name |-> StrV("registrant@example.com"),
     registrar       |-> StrV("My Registrar"),
     status          |-> StrV("OK")]

\* mock_whois_missing_some_attrs
MissingSomeAttrs ==
    [updated_date |-> DatetimeV(2022, 1, 1, 0, 0, 0, 0, "Europe/Amsterdam", "+01:00")]

EmptyResult == [f \in {} |-> None]

(***************************************************************************)
(* The inputs: what the external lookup can return or raise.               *)
(***************************************************************************)
Seqs(S, n) == UNION {[1..k -> S] : k \in 0..n}

Strings == {"", "unsigned", "UNSIGNED", "signedDelegation", "NS1.example.COM"}

Scalars ==
    {None} \cup {StrV(s) : s \in Strings}
           \cup {IntV(0), IntV(1), BoolV(TRUE), BoolV(FALSE),
                 DatetimeV(2019, 1, 1, 0, 0, 0, 0, "", "")}

\* list entries: any scalar, or a list
Elems == Scalars \cup {ListV(<<>>), ListV(<<StrV("Ok"), StrV("unsigned")>>)}

Values == Scalars \cup {ListV(e) : e \in Seqs(Elems, MaxLen)}

SmallValues ==
    {StrV(""), StrV("Ok"), IntV(1), ListV(<<StrV("")>>),
     ListV(<<StrV("unsigned"), StrV("Ok")>>)}

\* the fields query reads, and one it does not
FieldNames ==
    {"domain_name", "admin", "creation_date", "dnssec", "expiration_date",
     "updated_date", "name_servers", "name", "org", "registrant_name",
     "registrar", "status"}

FixtureResults == {EmptyResult, MockData, MissingSomeAttrs}

\* a fixture (or the empty dict) with one field set to any value
OneFieldResults ==
    {(f :> v) @@ base : f \in FieldNames, v \in Values,
                        base \in FixtureResults}

\* up to MaxFields fields set at once
FewFieldsResults ==
    UNION {[F -> SmallValues] : F \in {G \in SUBSET FieldNames : Cardinality(G) <= MaxFields}}

OwnerValues ==
    SmallValues \cup {None, BoolV(TRUE), DatetimeV(2019, 1, 1, 0, 0, 0, 0, "", "")}

\* any of the three fields get_attr_owner reads, set together
OwnerResults ==
    UNION {[F -> OwnerValues] : F \in SUBSET {"name", "org", "registrant_name"}}

RawResults ==
    FixtureResults \cup OneFieldResults \cup FewFieldsResults \cup OwnerResults

Phrases ==
    {UnknownKindMsg, NoServerMsg, NoMatchMsg, "no match for",
     "Connection reset by peer", ""}

Messages == {a \o " " \o b \o " example.nope" : a \in Phrases, b \in Phrases}

LookupErrors ==
    {Exc("PywhoisError", m, e) : m \in Messages, e \in {"", "TypeError"}}
    \cup {Exc(c, m, "") : c \in {"ConnectionError", "TimeoutError"},
                          m \in {"Connection reset by peer", NoMatchMsg}}

LookupOutcomes ==
    {[kind |-> "return", wh |-> None]}
    \cup {[kind |-> "return", wh |-> Dict(m)] : m \in RawResults}
    \cup {[kind |-> "raise", exc |-> e] : e \in LookupErrors}

Domains == {"home-assistant.io"}

(***************************************************************************)
(* The calls of query.                                                     *)
(***************************************************************************)
Init ==
    /\ domain = ""
    /\ ext = NotCalled
    /\ ret = NotCalled
    /\ sx = None
    /\ sattr = ""
    /\ slist = NotCalled
    /\ sscalar = NotCalled

\* The call query(d), in which the external lookup has outcome o.  A call
\* keeps no state, so a behaviour holds one call.
Query ==
    /\ ret = NotCalled
    /\ \E d \in Domains, o \in LookupOutcomes :
           /\ domain' = d
           /\ ext' = o
           /\ ret' = query(o)
    /\ UNCHANGED <<sx, sattr, slist, sscalar>>

Next == Query

Spec == Init /\ [][Next]_vars

(***************************************************************************)
(* get_attr_generic_single applied to a field [x] and to a field x.        *)
(***************************************************************************)
SingleAttrs == {"admin", "registrar", "status"}

InitSingle ==
    /\ domain = ""
    /\ ext = NotCalled
    /\ ret = NotCalled
    /\ sx \in Values
    /\ sattr \in SingleAttrs
    /\ slist = NotCalled
    /\ sscalar = NotCalled

ApplySingle ==
    /\ slist = NotCalled
    /\ slist' = Return(get_attr_generic_single(Dict(sattr :> ListV(<<sx>>)), sattr))
    /\ sscalar' = Return(get_attr_generic_single(Dict(sattr :> sx), sattr))
    /\ UNCHANGED <<domain, ext, ret, sx, sattr>>

NextSingle == ApplySingle

SpecSingle == InitSingle /\ [][NextSingle]_vars

(***************************************************************************)
(* Properties.                                                             *)
(***************************************************************************)
Called == ret.kind # "none"
\* the lookup returned a present raw result
Present == ext.kind = "return" /\ ext.wh.t = "dict"
\* query returned a Domain
ReturnedDomain == ret.kind = "return" /\ ret.value.t = "Domain"
\* the upstream field is absent or empty
FieldEmpty(f) == f \notin DOMAIN ext.wh.m \/ ~Truthy(ext.wh.m[f])
\* the upstream field coerced to a sequence
Entries(f) == IF ext.wh.m[f].t = "list" THEN ext.wh.m[f].e ELSE <<ext.wh.m[f]>>
\* the upstream field is set to v
FieldIs(f, v) == Present /\ f \in DOMAIN ext.wh.m /\ ext.wh.m[f] = v

\* C1: whatever the lookup does, query returns or raises WhoisUnknownTLD or
\* GenericWhoisError and nothing else, and once the raw result is present
\* the field mapping does not raise: query returns a Domain.
C1_OnlyTwoErrorKindsEscape ==
    Called =>
        /\ ret.kind = "raise" => ret.cls \in {"WhoisUnknownTLD", "GenericWhoisError"}
        /\ Present => ReturnedDomain

\* the failure is the library's lookup error and its message can be read
Classifiable == IsInstance(ext.exc, "PywhoisError") /\ ext.exc.str_error = ""
UnknownTLDMessage ==
    \/ Contains(ext.exc.msg, "No whois server is known for this kind of object")
    \/ Contains(ext.exc.msg, "This TLD has no whois server")

\* C2: when the lookup raises, (1) an unknown-TLD message gives
\* WhoisUnknownTLD, also when "No match for" is in the message too, (2) else
\* a "No match for" message gives a return of None, (3) every other failure,
\* a failure of the classification itself included, gives GenericWhoisError.
C2_ClassificationOrder ==
    (Called /\ ext.kind = "raise") =>
        IF Classifiable /\ UnknownTLDMessage THEN ret = Raise("WhoisUnknownTLD")
        ELSE IF Classifiable /\ Contains(ext.exc.msg, "No match for")
             THEN ret = Return(None)
        ELSE ret = Raise("GenericWhoisError")

\* the lookup raised a "No match for" failure that query suppresses
SuppressedNoMatch ==
    /\ ext.kind = "raise"
    /\ Classifiable
    /\ ~UnknownTLDMessage
    /\ Contains(ext.exc.msg, "No match for")

AllNull ==
    Domain(None, None, BoolV(FALSE), None, None, None, None, None, None, None,
           None, None)

\* every one of the twelve fields is set, dnssec to a bool and reseller to
\* None, and a field whose upstream fields are not supplied is None
Complete(D) ==
    /\ DOMAIN D = DOMAIN AllNull
    /\ D.dnssec.t = "bool"
    /\ D.reseller = None
    /\ \A f \in {"admin", "registrar", "status", "name_servers", "creation_date",
                 "expiration_date"} : f \notin DOMAIN ext.wh.m => D[f] = None
    /\ "updated_date" \notin DOMAIN ext.wh.m => D.last_updated = None
    /\ "status" \notin DOMAIN ext.wh.m => D.statuses = None
    /\ "dnssec" \notin DOMAIN ext.wh.m => D.dnssec = BoolV(FALSE)
    /\ {"name", "org", "registrant_name"} \cap DOMAIN ext.wh.m = {}
           => D.owner = None /\ D.registrant = None

\* C3: query returns None exactly when the lookup returned None or raised a
\* suppressed "No match for" failure, and for every present raw result it
\* returns a complete Domain.
C3_AbsentOrComplete ==
    Called =>
        /\ ret = Return(None) <=>
               (ext = [kind |-> "return", wh |-> None] \/ SuppressedNoMatch)
        /\ Present => ReturnedDomain /\ Complete(ret.value)

SingleApplied == slist.kind # "none"

\* C4: for every value x, get_attr_generic_single gives the same result on a
\* field [x] as on a field x.
C4_ListScalarEquivalence == SingleApplied => slist = sscalar

\* C4, amended: the two results agree exactly when x is None, or is truthy
\* and not itself a list; for such a truthy x both are x.
C4_EquivalenceForNonEmptyScalars ==
    SingleApplied =>
        /\ slist = sscalar <=> (IsNone(sx) \/ (Truthy(sx) /\ ~IsList(sx)))
        /\ (Truthy(sx) /\ ~IsList(sx)) => slist = Return(sx)

C4_Witness ==
    /\ SingleApplied
    /\ sx = StrV("NS1.example.COM")
    /\ slist = Return(sx)
    /\ sscalar = Return(sx)

\* C5: in the Domain query returns, a field whose upstream field is absent or
\* empty is None (name_servers and statuses too, not an empty list), and
\* dnssec is False.
C5_EmptyFieldsAreNull ==
    ReturnedDomain =>
        LET D == ret.value IN
        /\ \A f \in {"admin", "registrar", "status", "name_servers", "creation_date",
                     "expiration_date"} : FieldEmpty(f) => D[f] = None
        /\ FieldEmpty("updated_date") => D.last_updated = None
        /\ FieldEmpty("status") => D.statuses = None
        /\ FieldEmpty("dnssec") => D.dnssec = BoolV(FALSE)
        /\ (\A f \in {"name", "org", "registrant_name"} : FieldEmpty(f))
               => D.owner = None /\ D.registrant = None

C5_Witness ==
    /\ ReturnedDomain
    /\ FieldIs("name_servers", ListV(<<>>))
    /\ "dnssec" \notin DOMAIN ext.wh.m
    /\ ret.value.name_servers = None
    /\ ret.value.dnssec = BoolV(FALSE)

\* the values extracted for the owner, in order of priority
OwnerCandidates ==
    <<get_attr_generic_single(ext.wh, "name"),
      get_attr_generic_single(ext.wh, "org"),
      get_attr_generic_single(ext.wh, "registrant_name")>>

\* C6: owner equals registrant, and both are the string form of the first
\* non-empty value extracted from "name", "org", "registrant_name", or None
\* when none of the three is non-empty.
C6_OwnerIsFirstNonEmpty ==
    ReturnedDomain =>
        LET D == ret.value
            c == OwnerCandidates
            first == {i \in 1..3 : Truthy(c[i]) /\ \A j \in 1..(i - 1) : ~Truthy(c[j])}
        IN  /\ D.owner = D.registrant
            /\ \A i \in first : D.owner = StrV(PyStr(c[i]))
            /\ first = {} => D.owner = None

C6_Witness ==
    /\ ReturnedDomain
    /\ FieldIs("name", ListV(<<StrV("")>>))
    /\ FieldIs("org", IntV(1))
    /\ FieldIs("registrant_name", StrV("Ok"))
    /\ ret.value.owner = StrV("1")
    /\ ret.value.registrant = StrV("1")

FixtureLookup == ext = [kind |-> "return", wh |-> Dict(MockData)]

FixtureDomain(statuses) ==
    Domain(StrV("Admin"),
           DatetimeV(2019, 1, 1, 0, 0, 0, 0, "", ""),
           BoolV(TRUE),
           DatetimeV(2023, 1, 1, 0, 0, 0, 0, "", ""),
           DatetimeV(2022, 1, 1, 0, 0, 0, 0, "Europe/Amsterdam", "+01:00"),
           ListV(<<StrV("ns1.example.com"), StrV("ns2.example.com")>>),
           StrV("registrant@example.com"),
           StrV("My Registrar"),
           None,
           StrV("registrant@example.com"),
           StrV("OK"),
           statuses)

\* C7: on the raw result of the mock_whois fixture query returns the Domain
\* of the spec's end-to-end example, with statuses the scalar "OK".
C7_FixtureStatusesScalar ==
    (Called /\ FixtureLookup) => ret = Return(FixtureDomain(StrV("OK")))

\* C7, amended: the same Domain, with statuses the one-element list ["OK"].
C7_FixtureStatusesList ==
    (Called /\ FixtureLookup) => ret = Return(FixtureDomain(ListV(<<StrV("OK")>>)))

C7_Witness == Called /\ FixtureLookup /\ ReturnedDomain

\* C8: dnssec of the returned Domain is False when the upstream field is
\* absent or empty, and otherwise True exactly when some entry, lower-cased,
\* is not "unsigned".
C8_DnssecAnySigned ==
    ReturnedDomain =>
        LET D == ret.value IN
        /\ FieldEmpty("dnssec") => D.dnssec = BoolV(FALSE)
        /\ ~FieldEmpty("dnssec") =>
               D.dnssec = BoolV(\E i \in 1..Len(Entries("dnssec")) :
                                    LET v == Entries("dnssec")[i]
                                    IN  ~(IsStr(v) /\ Lower(v.s) = "unsigned"))
        /\ \A v \in {StrV("unsigned"), StrV("UNSIGNED"),
                     ListV(<<StrV("unsigned"), StrV("unsigned")>>)} :
               FieldIs("dnssec", v) => D.dnssec = BoolV(FALSE)
        /\ \A v \in {StrV("signedDelegation"),
                     ListV(<<StrV("unsigned"), StrV("signedDelegation")>>)} :
               FieldIs("dnssec", v) => D.dnssec = BoolV(TRUE)

C8_Witness ==
    /\ ReturnedDomain
    /\ FieldIs("dnssec", ListV(<<StrV("UNSIGNED"), StrV("signedDelegation")>>))
    /\ ret.value.dnssec = BoolV(TRUE)

NoUpperCase(s) ==
    \A k \in 1..Len(s) :
        \A u \in 1..Len("ABCDEFGHIJKLMNOPQRSTUVWXYZ") :
            SubSeq(s, k, k) # SubSeq("ABCDEFGHIJKLMNOPQRSTUVWXYZ", u, u)

\* C9: for a non-empty upstream name_servers of n entries, name_servers of
\* the returned Domain has n entries, the i-th being the lower-cased string
\* form of the i-th input entry, with no upper-case character left.
C9_NameServersLowered ==
    (ReturnedDomain /\ ~FieldEmpty("name_servers")) =>
        LET in == Entries("name_servers")
            out == ret.value.name_servers
        IN  /\ out.t = "list"
            /\ Len(out.e) = Len(in)
            /\ \A i \in 1..Len(in) :
                   /\ out.e[i] = StrV(Lower(PyStr(in[i])))
                   /\ NoUpperCase(out.e[i].s)
            /\ FieldIs("name_servers", MockData.name_servers) =>
                   out = ListV(<<StrV("ns1.example.com"), StrV("ns2.example.com")>>)

C9_Witness ==
    /\ ReturnedDomain
    /\ FieldIs("name_servers", ListV(<<StrV("NS1.example.COM"), BoolV(TRUE)>>))
    /\ ret.value.name_servers = ListV(<<StrV("ns1.example.com"), StrV("true")>>)

\* C10: for a non-empty upstream status, statuses holds all its entries in
\* their order and letter case and status is the first of them; status is
\* None exactly when statuses is None.
C10_StatusNullIffStatusesNull ==
    ReturnedDomain =>
        LET D == ret.value IN
        /\ ~FieldEmpty("status") =>
               /\ D.statuses = ListV(Entries("status"))
               /\ D.status = D.statuses.e[1]
        /\ D.status = None <=> D.statuses = None

\* C10, amended: statuses is None exactly when the upstream status is absent
\* or empty; status is None exactly when statuses is None or the first entry
\* of statuses is itself None.
C10_StatusIsFirstOfStatuses ==
    ReturnedDomain =>
        LET D == ret.value IN
        /\ ~FieldEmpty("status") =>
               /\ D.statuses = ListV(Entries("status"))
               /\ D.status = D.statuses.e[1]
        /\ D.statuses = None <=> FieldEmpty("status")
        /\ D.status = None <=> (D.statuses = None \/ D.statuses.e[1] = None)

C10_Witness ==
    /\ ReturnedDomain
    /\ FieldIs("status", ListV(<<StrV("NS1.example.COM"), StrV("unsigned")>>))
    /\ ret.value.status = StrV("NS1.example.COM")
    /\ ret.value.statuses = ListV(<<StrV("NS1.example.COM"), StrV("unsigned")>>)

====
